---- MODULE Spec2Model ----
(***************************************************************************)
(* Graph model, filter engine, layout engine and viewport of the          *)
(* GraphVisualization component (src/components/graph-visualization.tsx). *)
(*                                                                         *)
(* Strings are sequences of one-character strings, so that the string     *)
(* operations of the component (template concatenation, split, substring, *)
(* toLowerCase, includes) are computed and not assumed.                    *)
(*                                                                         *)
(* Numbers of the canvas are fixed-point integers: a position p of the    *)
(* code is the integer p * PosScale, a velocity v is v * VelScale, and    *)
(* the viewport scale s is s * ScaleUnit.  Divisions round toward zero.   *)
(*                                                                         *)
(* Node objects live in nodeObj (id -> object); allNodes and visibleNodes *)
(* are arrays of references (ids) to them, as the arrays of the component *)
(* share their element objects.                                            *)
(***************************************************************************)
EXTENDS Integers, Sequences, FiniteSets, TLC

VARIABLES
    triplets,            \* the triplets prop: the current fact batch
    nodeObj,             \* the node objects, by id
    allNodes,            \* useState allNodes: array of node references
    allEdges,            \* useState allEdges
    visibleNodes,        \* useState visibleNodes: array of node references
    visibleEdges,        \* useState visibleEdges
    availablePredicates, \* useState availablePredicates
    filters,             \* useState filters (GraphFilters)
    scale,               \* useState scale
    offset,              \* useState offset
    isDragging,          \* useState isDragging
    dragStart,           \* useState dragStart
    isAnimating,         \* useState isAnimating
    animationRef,        \* useRef animationRef: the last frame handle, 0 unset
    frames,              \* the frame callbacks requested and not yet run
    renderPending,       \* a tick's setVisibleNodes awaits its render
    queued,              \* the visible lists set and not yet rendered
    surface,             \* what the canvas shows
    ticks,               \* number of simulation ticks run (bounds the model)
    zoomOps              \* number of zoom steps taken (bounds the model)

vars == <<triplets, nodeObj, allNodes, allEdges, visibleNodes, visibleEdges,
          availablePredicates, filters, scale, offset, isDragging, dragStart,
          isAnimating, animationRef, frames, renderPending, queued, surface,
          ticks, zoomOps>>

graphVars == <<triplets, nodeObj, allNodes, allEdges, visibleNodes,
               visibleEdges, availablePredicates, filters>>

viewVars == <<scale, offset, isDragging, dragStart>>

animVars == <<animationRef, frames, renderPending, queued>>

-----------------------------------------------------------------------------
(* Bounds of the model *)

MaxFacts == 3        \* longest fact batch
MaxTicks == 2        \* simulation ticks per run
MaxZoomSteps == 8    \* zoom steps each way of a zoom round trip
MaxZoomOps == 10     \* zoom steps per run
MaxPairTicks == 6    \* ticks a pair of nodes is followed for
MaxDegree == 7       \* highest degree of a drawn node
MaxLoopTicks == 3    \* ticks of a run whose renders are followed one by one

-----------------------------------------------------------------------------
(* Fixed-point units *)

PosScale == 10       \* position units per pixel
VelScale == 1000     \* velocity units per pixel/tick
ScaleUnit == 1000000 \* viewport scale units per 1.0

Abs(a) == IF a < 0 THEN -a ELSE a

Min(a, b) == IF a < b THEN a ELSE b

Max(a, b) == IF a > b THEN a ELSE b

\* Division rounding toward zero (the sign symmetry of the code's arithmetic).
DivT(a, b) == IF a >= 0 THEN a \div b ELSE -((-a) \div b)

-----------------------------------------------------------------------------
(* Strings *)

Str_A == <<"A">>

Str_B == <<"B">>

Str_x == <<"x">>

Str_y == <<"y">>

Str_x0 == <<"x", "_", "0">>

Str_p1 == <<"p", "1">>

Str_p2 == <<"p", "2">>

Str_ap == <<"a", "/", "p">>

Str_bp == <<"b", "/", "p">>

DigitChar == <<"0", "1", "2", "3", "4", "5", "6", "7", "8", "9">>

\* String(index): the decimal digits of a non-negative integer.
RECURSIVE NumToStr(_)
NumToStr(n) ==
    IF n < 10 THEN <<DigitChar[n + 1]>>
    ELSE NumToStr(n \div 10) \o <<DigitChar[(n % 10) + 1]>>

\* An object key without the fact's index: equal objects share a node
ObjectIdShared(object, index) == object

\* `${triplet.object}_${index}`
ObjectId(object, index) == object \o <<"_">> \o NumToStr(index)

\* Position of the last "/" of s, 0 when there is none.
LastSlash(s) ==
    LET P == {i \in 1..Len(s) : s[i] = "/"}
    IN  IF P = {} THEN 0 ELSE CHOOSE i \in P : \A j \in P : j <= i

\* s.split("/").pop() || s
LastSegment(s) ==
    LET seg == SubSeq(s, LastSlash(s) + 1, Len(s))
    IN  IF seg = <<>> THEN s ELSE seg

LabelMax == 20

\* object.length > 20 ? object.substring(0, 20) + "..." : object
ObjectLabel(object) ==
    IF Len(object) > LabelMax
    THEN SubSeq(object, 1, LabelMax) \o <<".", ".", ".">>
    ELSE object

LowerChar(c) ==
    CASE c = "A" -> "a"
      [] c = "B" -> "b"
      [] OTHER -> c

\* s.toLowerCase()
ToLowerCase(s) == [i \in 1..Len(s) |-> LowerChar(s[i])]

\* s.includes(t)
Includes(s, t) ==
    \E i \in 0..(Len(s) - Len(t)) : SubSeq(s, i + 1, i + Len(t)) = t

-----------------------------------------------------------------------------
(* Math.random(): a finite family of streams; the n-th call of stream     *)
(* seed returns RandomValue(seed, n) / (400 * PosScale) in [0, 1).        *)

CanvasSize == 400

\* Half the distance between the two nodes of the pair streams, in
\* position units: 0 to 150 pixels
PairHalves == <<0, 25, 50, 100, 150, 250, 500, 600, 1000, 1500>>

\* The streams that seed the first two nodes as a pair symmetric about the
\* canvas centre: stream k has the half distance PairHalves[k \div 3 + 1]
\* along the x axis, the y axis or the diagonal (k % 3).
PairValue(k, n) ==
    LET half == PairHalves[(k \div 3) + 1]
        along == IF n % 2 = 0 THEN k % 3 # 1 ELSE k % 3 # 0
        side == IF n < 2 THEN -1 ELSE 1
    IN  IF n < 4 /\ along
        THEN (CanvasSize * PosScale) \div 2 + side * half
        ELSE (CanvasSize * PosScale) \div 2

PairSeeds == 2..(3 * Len(PairHalves) + 1)

\* Math.random() * 400, in position units.
RandomValue(seed, n) ==
    IF seed \in PairSeeds THEN PairValue(seed - 2, n)
    ELSE ((seed + 1) * 1543 + n * 977) % (CanvasSize * PosScale)

-----------------------------------------------------------------------------
(* Graph Builder: the effect on [triplets] *)

Range(s) == {s[i] : i \in 1..Len(s)}

NewNode(id, label, type, x, y, clusterId) ==
    [id |-> id, label |-> label, type |-> type, x |-> x, y |-> y,
     vx |-> 0, vy |-> 0, connections |-> 0, visible |-> TRUE,
     clusterId |-> clusterId]

NewEdge(source, target, predicate) ==
    [source |-> source, target |-> target, label |-> LastSegment(predicate),
     predicate |-> predicate, visible |-> TRUE, weight |-> 1]

EmptyBuild == [order |-> <<>>, obj |-> <<>>, edges |-> <<>>, preds |-> <<>>,
               calls |-> 0]

\* nodeMap.set(id, node) for an id that nodeMap does not hold.
MapAdd(acc, node, calls) ==
    [acc EXCEPT !.order = Append(@, node.id),
                !.obj = (node.id :> node) @@ @,
                !.calls = calls]

\* One iteration of triplets.forEach; index is the 0-based array index.
BuildStep(acc, triplet, index, seed) ==
    LET withPred ==
            IF triplet.predicate \in Range(acc.preds) THEN acc
            ELSE [acc EXCEPT !.preds = Append(@, triplet.predicate)]
        withSubject ==
            IF triplet.subject \in DOMAIN withPred.obj THEN withPred
            ELSE MapAdd(withPred,
                        NewNode(triplet.subject, LastSegment(triplet.subject),
                                "subject",
                                RandomValue(seed, withPred.calls),
                                RandomValue(seed, withPred.calls + 1),
                                triplet.predicate),
                        withPred.calls + 2)
        objectId == ObjectId(triplet.object, index)
        withObject ==
            IF objectId \in DOMAIN withSubject.obj THEN withSubject
            ELSE MapAdd(withSubject,
                        NewNode(objectId, ObjectLabel(triplet.object),
                                "object",
                                RandomValue(seed, withSubject.calls),
                                RandomValue(seed, withSubject.calls + 1),
                                triplet.predicate),
                        withSubject.calls + 2)
        inc1 == [withObject EXCEPT
                    !.obj[triplet.subject].connections = @ + 1]
        inc2 == [inc1 EXCEPT !.obj[objectId].connections = @ + 1]
    IN  [inc2 EXCEPT
            !.edges = Append(@, NewEdge(triplet.subject, objectId,
                                        triplet.predicate))]

RECURSIVE BuildFrom(_, _, _, _)
BuildFrom(acc, facts, i, seed) ==
    IF i > Len(facts) THEN acc
    ELSE BuildFrom(BuildStep(acc, facts[i], i - 1, seed), facts, i + 1, seed)

\* nodeMap, edgeList and predicateSet after the forEach.
BuildGraph(facts, seed) == BuildFrom(EmptyBuild, facts, 1, seed)

-----------------------------------------------------------------------------
(* Array helpers *)

\* array.slice(0, n), for negative n too
SliceTo(s, n) ==
    LET last == IF n >= 0 THEN Min(n, Len(s)) ELSE Max(Len(s) + n, 0)
    IN  SubSeq(s, 1, last)

\* 1-based position of id in an array that holds it once
IndexOf(s, id) == CHOOSE i \in 1..Len(s) : s[i] = id

\* compareFn of the node cap: (a, b) => b.connections - a.connections
CapCompare(obj, a, b) == obj[b].connections - obj[a].connections

\* InsertStable with the equal elements after the new one (an unstable sort)
InsertBeforeTies(obj, sorted, id) ==
    LET after == {i \in 1..Len(sorted) : CapCompare(obj, sorted[i], id) < 0}
        k == IF after = {} THEN 0 ELSE CHOOSE i \in after : \A j \in after : j <= i
    IN  SubSeq(sorted, 1, k) \o <<id>> \o SubSeq(sorted, k + 1, Len(sorted))

\* Stable insertion of id into a sorted array: after every element that
\* does not compare greater than it.
InsertStable(obj, sorted, id) ==
    LET after == {i \in 1..Len(sorted) : CapCompare(obj, sorted[i], id) <= 0}
        k == IF after = {} THEN 0 ELSE CHOOSE i \in after : \A j \in after : j <= i
    IN  SubSeq(sorted, 1, k) \o <<id>> \o SubSeq(sorted, k + 1, Len(sorted))

\* Array.prototype.sort with CapCompare: a stable sort (ECMAScript 2019).
RECURSIVE SortFrom(_, _, _, _)
SortFrom(obj, s, i, sorted) ==
    IF i > Len(s) THEN sorted
    ELSE SortFrom(obj, s, i + 1, InsertStable(obj, sorted, s[i]))

SortByConnections(obj, s) == SortFrom(obj, s, 1, <<>>)

-----------------------------------------------------------------------------
(* Layout Engine: applyLayout *)

CenterX == 200

CenterY == 200

Radius == 150

PiMilli == 3142      \* Math.PI, in thousandths

\* cos of x thousandths of a radian, in thousandths: the Taylor series
\* summed until its terms vanish, |x| <= PiMilli / 2.
RECURSIVE CosSeries(_, _, _, _)
CosSeries(x2, term, k, sum) ==
    IF term = 0 THEN sum
    ELSE CosSeries(x2, DivT(-(term * x2), (2 * k + 1) * (2 * k + 2) * 1000),
                   k + 1, sum + term)

\* Math.cos, for -2*PiMilli <= x <= 2*PiMilli
CosMilli(x) ==
    LET a == Abs(x)
        b == IF a > PiMilli THEN 2 * PiMilli - a ELSE a
    IN  IF 2 * b > PiMilli
        THEN -CosSeries(DivT((PiMilli - b) * (PiMilli - b), 1000), 1000, 0, 0)
        ELSE CosSeries(DivT(b * b, 1000), 1000, 0, 0)

\* Math.sin
SinMilli(x) == CosMilli(x - PiMilli \div 2)

\* (2 * Math.PI * index) / nodes.length
CircleAngle(index, n) == DivT(2 * PiMilli * index, n)

\* Math.ceil(Math.sqrt(n))
CeilSqrt(n) == CHOOSE c \in 0..n : c * c >= n /\ \A d \in 0..n : d * d >= n => c <= d

GridCell == 80

GridMargin == 50

BandStep == 100

BandWrap == 400

BandMargin == 50

SubjectBandY == 100

ObjectBandY == 300

\* case "circular"
CircularPos(index, n) ==
    [x |-> CenterX * PosScale
             + DivT(Radius * PosScale * CosMilli(CircleAngle(index, n)), 1000),
     y |-> CenterY * PosScale
             + DivT(Radius * PosScale * SinMilli(CircleAngle(index, n)), 1000)]

\* case "grid"
GridPos(index, n) ==
    LET cols == CeilSqrt(n)
    IN  [x |-> ((index % cols) * GridCell + GridMargin) * PosScale,
         y |-> ((index \div cols) * GridCell + GridMargin) * PosScale]

\* case "hierarchical": index is the node's index within its band
BandPos(index, type) ==
    [x |-> (((index * BandStep) % BandWrap) + BandMargin) * PosScale,
     y |-> (IF type = "subject" THEN SubjectBandY ELSE ObjectBandY) * PosScale]

\* 0-based index of nodes[i] among the nodes of its own type
BandIndex(obj, nodes, i) ==
    Cardinality({j \in 1..(i - 1) : obj[nodes[j]].type = obj[nodes[i]].type})

\* LayoutPos with the grid cell added to the node's position (+= for =)
LayoutPosAdded(obj, nodes, i, layoutType) ==
    CASE layoutType = "circular" -> CircularPos(i - 1, Len(nodes))
      [] layoutType = "grid" ->
            [x |-> obj[nodes[i]].x + GridPos(i - 1, Len(nodes)).x,
             y |-> obj[nodes[i]].y + GridPos(i - 1, Len(nodes)).y]
      [] layoutType = "hierarchical" ->
            BandPos(BandIndex(obj, nodes, i), obj[nodes[i]].type)
      [] OTHER -> [x |-> obj[nodes[i]].x, y |-> obj[nodes[i]].y]

\* Position applyLayout writes into nodes[i]; the node's own for "force".
LayoutPos(obj, nodes, i, layoutType) ==
    CASE layoutType = "circular" -> CircularPos(i - 1, Len(nodes))
      [] layoutType = "grid" -> GridPos(i - 1, Len(nodes))
      [] layoutType = "hierarchical" ->
            BandPos(BandIndex(obj, nodes, i), obj[nodes[i]].type)
      [] OTHER -> [x |-> obj[nodes[i]].x, y |-> obj[nodes[i]].y]

\* An applyLayout that keeps every node where it is
ApplyLayoutKeep(obj, nodes, layoutType) == obj

\* applyLayout(nodes, edges, layoutType): the node objects after the call;
\* it assigns node.x and node.y of the objects the array refers to.
ApplyLayout(obj, nodes, layoutType) ==
    [id \in DOMAIN obj |->
        IF id \in Range(nodes)
        THEN LET p == LayoutPos(obj, nodes, IndexOf(nodes, id), layoutType)
             IN  [obj[id] EXCEPT !.x = p.x, !.y = p.y]
        ELSE obj[id]]

-----------------------------------------------------------------------------
(* Filter Engine: the effect on [allNodes, allEdges, filters] *)

\* NodePasses without the minConnections test
NodePassesNoMin(node, f) ==
    /\ node.type \in f.nodeTypes
    /\ ~(node.connections > f.maxConnections)
    /\ ~(f.searchTerm # <<>>
            /\ ~Includes(ToLowerCase(node.label), ToLowerCase(f.searchTerm)))

\* NodePasses comparing the label and the search term as they are written
NodePassesExactCase(node, f) ==
    /\ node.type \in f.nodeTypes
    /\ ~(node.connections < f.minConnections
            \/ node.connections > f.maxConnections)
    /\ ~(f.searchTerm # <<>> /\ ~Includes(node.label, f.searchTerm))

\* callback of allNodes.filter: role, degree range and search term
NodePasses(node, f) ==
    /\ node.type \in f.nodeTypes
    /\ ~(node.connections < f.minConnections
            \/ node.connections > f.maxConnections)
    /\ ~(f.searchTerm # <<>>
            /\ ~Includes(ToLowerCase(node.label), ToLowerCase(f.searchTerm)))

\* EdgePasses comparing the shortened labels of the predicates
EdgePassesByLabel(edge, nodes, f) ==
    /\ edge.label \in {LastSegment(p) : p \in f.predicates}
    /\ edge.source \in Range(nodes)
    /\ edge.target \in Range(nodes)

\* callback of allEdges.filter: predicate selected and both endpoints kept
EdgePasses(edge, nodes, f) ==
    /\ edge.predicate \in f.predicates
    /\ edge.source \in Range(nodes)
    /\ edge.target \in Range(nodes)

\* A showIsolatedNodes step that drops no node
DropNone(nodes, edges, f) == nodes

\* nodes left by the showIsolatedNodes step
DropIsolated(nodes, edges, f) ==
    IF ~f.showIsolatedNodes
    THEN LET connectedNodeIds ==
                 {e.source : e \in Range(edges)} \cup {e.target : e \in Range(edges)}
         IN  SelectSeq(nodes, LAMBDA id : id \in connectedNodeIds)
    ELSE nodes

\* CapNodes keeping one node too many
CapNodesOneMore(obj, nodes, f) ==
    IF Len(nodes) > f.maxNodes
    THEN SliceTo(SortByConnections(obj, nodes), f.maxNodes + 1)
    ELSE nodes

\* nodes left by the maxNodes step
CapNodes(obj, nodes, f) ==
    IF Len(nodes) > f.maxNodes
    THEN SliceTo(SortByConnections(obj, nodes), f.maxNodes)
    ELSE nodes

\* CapEdges without the second edge filter
CapEdgesKeepAll(nodes, capped, edges, f) == edges

\* edges left by the maxNodes step
CapEdges(nodes, capped, edges, f) ==
    IF Len(nodes) > f.maxNodes
    THEN SelectSeq(edges, LAMBDA e : e.source \in Range(capped)
                                       /\ e.target \in Range(capped))
    ELSE edges

\* filteredNodes after allNodes.filter
FilteredNodes(obj, nodes, f) == SelectSeq(nodes, LAMBDA id : NodePasses(obj[id], f))

\* filteredEdges after allEdges.filter
FilteredEdges(obj, nodes, edges, f) ==
    SelectSeq(edges, LAMBDA e : EdgePasses(e, FilteredNodes(obj, nodes, f), f))

\* filteredNodes before the maxNodes step
Survivors(obj, nodes, edges, f) ==
    DropIsolated(FilteredNodes(obj, nodes, f), FilteredEdges(obj, nodes, edges, f), f)

\* The whole effect: filteredNodes, filteredEdges and the node objects
\* after applyLayout.
FilterPass(obj, nodes, edges, f) ==
    LET n1 == FilteredNodes(obj, nodes, f)
        e1 == SelectSeq(edges, LAMBDA e : EdgePasses(e, n1, f))
        n2 == DropIsolated(n1, e1, f)
        n3 == CapNodes(obj, n2, f)
        e3 == CapEdges(n2, n3, e1, f)
    IN  [nodes |-> n3, edges |-> e3, obj |-> ApplyLayout(obj, n3, f.layoutType)]

-----------------------------------------------------------------------------
(* Layout Engine: runForceSimulation *)

\* Math.sqrt, rounded down: the root of n between lo and hi
RECURSIVE SqrtBetween(_, _, _)
SqrtBetween(n, lo, hi) ==
    IF lo >= hi THEN lo
    ELSE LET mid == (lo + hi + 1) \div 2
         IN  IF mid * mid <= n THEN SqrtBetween(n, mid, hi)
             ELSE SqrtBetween(n, lo, mid - 1)

\* 46340 is the largest root of a 32-bit integer.
Sqrt(n) == SqrtBetween(n, 0, Min(n, 46340))

FrictionPct == 90        \* 0.9, in hundredths

CenterForcePct == 1      \* centerForce 0.01, in hundredths

RepulsionRange == 100    \* distance < 100

RepulsionStrength == 50  \* 50 / distance^2

AttractionMilli == 20    \* force 0.02, in thousandths

BoundLow == 20

BoundHigh == 380

\* dx * dx + dy * dy, in squared position units
Dist2(dx, dy) == dx * dx + dy * dy

\* What stands for NaN and the infinities in a velocity
NonFinite == 1000000000

\* Repulsion without the distance > 0 test: 0 / 0 at zero distance
RepulsionUnguarded(node, other) ==
    LET dx == node.x - other.x
        dy == node.y - other.y
        d2 == Dist2(dx, dy)
    IN  IF d2 < RepulsionRange * RepulsionRange * PosScale * PosScale
        THEN IF d2 = 0 THEN [vx |-> NonFinite, vy |-> NonFinite]
             ELSE LET distance == Sqrt(d2)
                      force == (RepulsionStrength * PosScale * PosScale * VelScale) \div d2
                  IN  [vx |-> DivT(dx * force, distance), vy |-> DivT(dy * force, distance)]
        ELSE [vx |-> 0, vy |-> 0]

\* The repulsion other adds to node's velocity: (dx / distance) * force on
\* each axis, for 0 < distance < 100.
Repulsion(node, other) ==
    LET dx == node.x - other.x
        dy == node.y - other.y
        d2 == Dist2(dx, dy)
    IN  IF d2 < RepulsionRange * RepulsionRange * PosScale * PosScale /\ d2 > 0
        THEN LET distance == Sqrt(d2)
                 force == (RepulsionStrength * PosScale * PosScale * VelScale) \div d2
             IN  [vx |-> DivT(dx * force, distance), vy |-> DivT(dy * force, distance)]
        ELSE [vx |-> 0, vy |-> 0]

\* Sum of the repulsions of the nodes others[i..] on node
RECURSIVE RepulsionSum(_, _, _, _)
RepulsionSum(obj, node, others, i) ==
    IF i > Len(others) THEN [vx |-> 0, vy |-> 0]
    ELSE LET rest == RepulsionSum(obj, node, others, i + 1)
             r == IF others[i] # node.id THEN Repulsion(node, obj[others[i]])
                  ELSE [vx |-> 0, vy |-> 0]
         IN  [vx |-> r.vx + rest.vx, vy |-> r.vy + rest.vy]

\* First loop of the tick, for one node: friction, the pull to the centre
\* and the repulsion of every other visible node.
NodeForces(obj, nodes, id) ==
    LET node == obj[id]
        rep == RepulsionSum(obj, node, nodes, 1)
    IN  [node EXCEPT
            !.vx = DivT(node.vx * FrictionPct, 100)
                     + DivT((CenterX * PosScale - node.x) * CenterForcePct * VelScale,
                            100 * PosScale)
                     + rep.vx,
            !.vy = DivT(node.vy * FrictionPct, 100)
                     + DivT((CenterY * PosScale - node.y) * CenterForcePct * VelScale,
                            100 * PosScale)
                     + rep.vy]

\* One iteration of edges.forEach: the attraction along an edge whose two
\* ends are in nodes and apart.
Attract(obj, nodes, edge) ==
    IF edge.source \in Range(nodes) /\ edge.target \in Range(nodes)
    THEN LET dx == obj[edge.target].x - obj[edge.source].x
             dy == obj[edge.target].y - obj[edge.source].y
             d2 == Dist2(dx, dy)
         IN  IF d2 > 0
             THEN LET distance == Sqrt(d2)
                      fx == DivT(dx * AttractionMilli * VelScale, distance * 1000)
                      fy == DivT(dy * AttractionMilli * VelScale, distance * 1000)
                      o1 == [obj EXCEPT ![edge.source].vx = @ + fx,
                                        ![edge.source].vy = @ + fy]
                  IN  [o1 EXCEPT ![edge.target].vx = @ - fx,
                                 ![edge.target].vy = @ - fy]
             ELSE obj
    ELSE obj

RECURSIVE AttractFrom(_, _, _, _)
AttractFrom(obj, nodes, edges, i) ==
    IF i > Len(edges) THEN obj
    ELSE AttractFrom(Attract(obj, nodes, edges[i]), nodes, edges, i + 1)

\* ClampToCanvas without the upper bound
ClampLowOnly(p) == Max(BoundLow * PosScale, p)

\* Math.max(20, Math.min(380, p))
ClampToCanvas(p) == Max(BoundLow * PosScale, Min(BoundHigh * PosScale, p))

\* MoveNode with the velocity subtracted
MoveNodeBack(node) ==
    [node EXCEPT
        !.x = ClampToCanvas(node.x - DivT(node.vx * PosScale, VelScale)),
        !.y = ClampToCanvas(node.y - DivT(node.vy * PosScale, VelScale))]

\* Last loop of the tick, for one node: move by the velocity and clamp.
MoveNode(node) ==
    [node EXCEPT
        !.x = ClampToCanvas(node.x + DivT(node.vx * PosScale, VelScale)),
        !.y = ClampToCanvas(node.y + DivT(node.vy * PosScale, VelScale))]

\* The node objects after the body of runForceSimulation on the visible
\* nodes and edges.
ForceTick(obj, nodes, edges) ==
    LET forced == [id \in DOMAIN obj |->
                      IF id \in Range(nodes) THEN NodeForces(obj, nodes, id)
                      ELSE obj[id]]
        pulled == AttractFrom(forced, nodes, edges, 1)
    IN  [id \in DOMAIN obj |->
            IF id \in Range(nodes) THEN MoveNode(pulled[id]) ELSE pulled[id]]

-----------------------------------------------------------------------------
(* Animation loop: runForceSimulation and the effect that starts it.      *)
(* A frame callback is the runForceSimulation of one render: it closes    *)
(* over that render's visibleNodes, visibleEdges, layoutType and          *)
(* isAnimating.  Frame handles are numbered by the tick that asked.       *)

\* The values the runForceSimulation of a render closes over
Closure(nodes, edges, layoutType, animating) ==
    [nodes |-> nodes, edges |-> edges, layoutType |-> layoutType,
     isAnimating |-> animating]

\* A cleanup that cancels nothing
CancelNothing(pending, ref) == pending

\* The effect's cleanup: cancelAnimationFrame(animationRef.current) when
\* animationRef.current is set
CancelFrame(pending, ref) ==
    IF ref # 0 THEN {fr \in pending : fr.handle # ref} ELSE pending

\* A runForceSimulation that asks for no frame
RunForceSimulationOnce(c, obj, pending, ref, n) ==
    IF c.layoutType # "force" \/ ~c.isAnimating
    THEN [ran |-> FALSE, obj |-> obj, frames |-> pending, ref |-> ref]
    ELSE [ran |-> TRUE, obj |-> ForceTick(obj, c.nodes, c.edges),
          frames |-> pending, ref |-> ref]

\* runForceSimulation with the closure c, after n frame requests: it
\* returns at once unless c is animating with the "force" layout; else it
\* moves the nodes and asks for the next frame with itself as callback.
RunForceSimulation(c, obj, pending, ref, n) ==
    IF c.layoutType # "force" \/ ~c.isAnimating
    THEN [ran |-> FALSE, obj |-> obj, frames |-> pending, ref |-> ref]
    ELSE [ran |-> TRUE, obj |-> ForceTick(obj, c.nodes, c.edges),
          frames |-> pending \cup {[handle |-> n + 1, callback |-> c]},
          ref |-> n + 1]

\* The animation effect re-run by a render: the cleanup of its last run,
\* then runForceSimulation when animating with the "force" layout.
AnimationEffect(c, obj, pending, ref, n) ==
    IF c.isAnimating /\ c.layoutType = "force"
    THEN RunForceSimulation(c, obj, CancelFrame(pending, ref), ref, n)
    ELSE [ran |-> FALSE, obj |-> obj, frames |-> CancelFrame(pending, ref),
          ref |-> ref]

\* The calls of setVisibleNodes and setVisibleEdges whose render has not
\* run yet: for each list the last value set, if any
NoQueue == [nodes |-> <<>>, edges |-> <<>>]

\* The list a render shows: the last value set, or the one shown before
Latest(set, shown) == IF set = <<>> THEN shown ELSE set[1]

-----------------------------------------------------------------------------
(* Render Pipeline: the render effect.  The surface holds the transform   *)
(* and the draw calls of the last draw(), in model-space coordinates.     *)

NodeSizeMin == 8

NodeSizeMax == 20

NodeSizeStep == 2

HighDegree == 5          \* connections > 5: the high-connectivity colour

\* NodeSize without the clamp
NodeSizeUnclamped(node) == NodeSizeMin + node.connections * NodeSizeStep

\* Math.max(8, Math.min(20, 8 + node.connections * 2))
NodeSize(node) ==
    Max(NodeSizeMin, Min(NodeSizeMax, NodeSizeMin + node.connections * NodeSizeStep))

\* fillColor
FillColor(node) ==
    IF node.connections > HighDegree THEN "#ef4444"
    ELSE IF node.type = "subject" THEN "#3b82f6" ELSE "#f59e0b"

\* The draw calls of one edge: the line, and the label above scale 0.5
RenderEdge(obj, edge, sc, showLabels) ==
    [from |-> [x |-> obj[edge.source].x, y |-> obj[edge.source].y],
     to |-> [x |-> obj[edge.target].x, y |-> obj[edge.target].y],
     lineWidth |-> Max(1, edge.weight),
     text |-> IF showLabels /\ sc * 10 > 5 * ScaleUnit
              THEN <<edge.label>> ELSE <<>>]

\* The draw calls of one node: the circle, the label above scale 0.3 and
\* the number of connections above scale 1.5
RenderNode(node, sc, showLabels) ==
    [x |-> node.x, y |-> node.y, radius |-> NodeSize(node),
     fill |-> FillColor(node),
     text |-> (IF showLabels /\ sc * 10 > 3 * ScaleUnit
               THEN <<node.label>> ELSE <<>>)
              \o (IF sc * 10 > 15 * ScaleUnit
                  THEN <<NumToStr(node.connections)>> ELSE <<>>)]

\* A canvas nothing was drawn on
BlankSurface ==
    [translate |-> [x |-> 0, y |-> 0], scale |-> ScaleUnit,
     edges |-> <<>>, nodes |-> <<>>]

\* draw(): clearRect, the transform, the edges whose two ends are visible
\* nodes, then the nodes
Draw(obj, nodes, edges, sc, off, showLabels) ==
    LET found == SelectSeq(edges, LAMBDA e : e.source \in Range(nodes)
                                               /\ e.target \in Range(nodes))
    IN  [translate |-> off, scale |-> sc,
         edges |-> [i \in 1..Len(found) |-> RenderEdge(obj, found[i], sc, showLabels)],
         nodes |-> [i \in 1..Len(nodes) |->
                       RenderNode(obj[nodes[i]], sc, showLabels)]]

\* The render effect: it returns before drawing when there is no visible
\* node, and the canvas keeps what it showed.
RenderEffect(shown, obj, nodes, edges, sc, off, showLabels) ==
    IF Len(nodes) = 0 THEN shown
    ELSE Draw(obj, nodes, edges, sc, off, showLabels)

-----------------------------------------------------------------------------
(* Inputs *)

Fact(s, p, o) == [subject |-> s, predicate |-> p, object |-> o]

\* The facts a batch is made of.  The last one has a subject that reads
\* like the id of an object node.
FactChoices ==
    {Fact(Str_A, Str_p1, Str_x), Fact(Str_A, Str_p2, Str_y),
     Fact(Str_B, Str_p1, Str_x), Fact(Str_x0, Str_p1, Str_x)}

\* The three facts of the scenarios
ScenarioBatch ==
    <<Fact(Str_A, Str_p1, Str_x), Fact(Str_A, Str_p2, Str_y),
      Fact(Str_B, Str_p1, Str_x)>>

Batches == UNION {[1..n -> FactChoices] : n \in 0..MaxFacts}

Seeds == {0, 1}

DefaultMaxNodes == 50

DefaultMaxConnections == 100

MinConnChoices == 0..2

MaxNodesChoices == (0..3) \cup {10, DefaultMaxNodes}

SearchTerms == {<<>>, <<"a">>}

LayoutTypes == {"force", "circular", "hierarchical", "grid"}

NodeTypeChoices == SUBSET {"subject", "object"}

MaxConnChoices == {0, 1, DefaultMaxConnections}

\* Search terms in either case
CaseTerms == {<<>>, <<"a">>, <<"B">>}

-----------------------------------------------------------------------------
(* State after construction *)

InitFilters ==
    [predicates |-> {}, nodeTypes |-> {"subject", "object"},
     minConnections |-> 0, maxConnections |-> DefaultMaxConnections,
     showLabels |-> TRUE, showIsolatedNodes |-> TRUE,
     clusterByPredicate |-> FALSE, layoutType |-> "force",
     maxNodes |-> DefaultMaxNodes, searchTerm |-> <<>>]

\* The state once the component is mounted with the triplets prop batch:
\* useState defaults, then the graph-building effect and the filter effect.
Mounted(batch, seed) ==
    LET g == BuildGraph(batch, seed)
        f == [InitFilters EXCEPT !.predicates = Range(g.preds)]
        r == FilterPass(g.obj, g.order, g.edges, f)
    IN  /\ triplets = batch
        /\ nodeObj = r.obj
        /\ allNodes = g.order
        /\ allEdges = g.edges
        /\ visibleNodes = r.nodes
        /\ visibleEdges = r.edges
        /\ availablePredicates = g.preds
        /\ filters = f
        /\ scale = ScaleUnit
        /\ offset = [x |-> 0, y |-> 0]
        /\ isDragging = FALSE
        /\ dragStart = [x |-> 0, y |-> 0]
        /\ isAnimating = FALSE
        /\ animationRef = 0
        /\ frames = {}
        /\ renderPending = FALSE
        /\ queued = NoQueue
        /\ surface = RenderEffect(BlankSurface, r.obj, r.nodes, r.edges,
                                  ScaleUnit, [x |-> 0, y |-> 0], f.showLabels)
        /\ ticks = 0
        /\ zoomOps = 0

\* The facts of the batches the filter controls run on
FilterFacts ==
    {Fact(Str_A, Str_p1, Str_x), Fact(Str_A, Str_p2, Str_y),
     Fact(Str_B, Str_p1, Str_x)}

FilterBatches == UNION {[1..n -> FilterFacts] : n \in 0..MaxFacts}

\* Mounted with any batch (a filter pass with the "force" layout reads no
\* position, so one stream of seeds is enough here)
Init == \E batch \in FilterBatches : Mounted(batch, 0)

\* Mounted with no facts
InitEmpty == Mounted(<<>>, 0)

-----------------------------------------------------------------------------
(* Operations *)

\* The commit that ends a handler which left the node objects obj, the
\* visible lists nodes and edges, the filters f and the animation flag
\* animating: the animation effect, then the render effect.  A tick run by
\* the animation effect has called setVisibleNodes, whose render is pending.
Commit(obj, nodes, edges, f, animating) ==
    LET r == AnimationEffect(Closure(nodes, edges, f.layoutType, animating),
                             obj, frames, animationRef, ticks)
    IN  /\ r.ran => ticks < MaxTicks
        /\ nodeObj' = r.obj
        /\ visibleNodes' = nodes
        /\ visibleEdges' = edges
        /\ frames' = r.frames
        /\ animationRef' = r.ref
        /\ renderPending' = r.ran
        /\ queued' = queued
        /\ ticks' = IF r.ran THEN ticks + 1 ELSE ticks
        /\ surface' = RenderEffect(surface, r.obj, nodes, edges, scale, offset,
                                   f.showLabels)

\* The filter effect run on (obj, nodes, edges, f): applyLayout has written
\* into the node objects, and setVisibleNodes and setVisibleEdges bring the
\* commit of the new visible lists.
RunFilterEffect(obj, nodes, edges, f) ==
    LET r == FilterPass(obj, nodes, edges, f)
    IN  Commit(r.obj, r.nodes, r.edges, f, isAnimating)

\* The triplets prop changes to batch: the graph-building effect, and the
\* filter effect its state updates trigger.  An empty batch returns early.
SetTriplets(batch, seed) ==
    /\ triplets' = batch
    /\ IF Len(batch) = 0
       THEN UNCHANGED <<nodeObj, allNodes, allEdges, visibleNodes,
                        visibleEdges, availablePredicates, filters,
                        animVars, surface, ticks>>
       ELSE LET g == BuildGraph(batch, seed)
                f == [filters EXCEPT !.predicates = Range(g.preds)]
            IN  /\ allNodes' = g.order
                /\ allEdges' = g.edges
                /\ availablePredicates' = g.preds
                /\ filters' = f
                /\ RunFilterEffect(g.obj, g.order, g.edges, f)
    /\ UNCHANGED <<viewVars, isAnimating, zoomOps>>

\* updateFilter(key, value), and the filter effect the new filters trigger.
UpdateFilter(key, value) ==
    LET f == [filters EXCEPT ![key] = value]
    IN  /\ filters' = f
        /\ RunFilterEffect(nodeObj, allNodes, allEdges, f)
        /\ UNCHANGED <<triplets, allNodes, allEdges, availablePredicates,
                       viewVars, isAnimating, zoomOps>>

\* A predicate checkbox
TogglePredicate ==
    \E p \in Range(availablePredicates) :
        UpdateFilter("predicates",
                     IF p \in filters.predicates
                     THEN filters.predicates \ {p}
                     ELSE filters.predicates \cup {p})

\* "Mostrar Todo"
ShowAll == UpdateFilter("predicates", Range(availablePredicates))

\* "Ocultar Todo"
HideAll == UpdateFilter("predicates", {})

SetMinConnections == \E v \in MinConnChoices : UpdateFilter("minConnections", v)

SetMaxNodes == \E v \in MaxNodesChoices : UpdateFilter("maxNodes", v)

SetShowIsolated == \E v \in BOOLEAN : UpdateFilter("showIsolatedNodes", v)

SetSearchTerm == \E v \in SearchTerms : UpdateFilter("searchTerm", v)

SetLayoutType == \E v \in LayoutTypes : UpdateFilter("layoutType", v)

\* "Mostrar etiquetas"
SetShowLabels == \E v \in BOOLEAN : UpdateFilter("showLabels", v)

SetNodeTypes == \E v \in NodeTypeChoices : UpdateFilter("nodeTypes", v)

SetMaxConnections == \E v \in MaxConnChoices : UpdateFilter("maxConnections", v)

SetCaseTerm == \E v \in CaseTerms : UpdateFilter("searchTerm", v)

SetCap == \E v \in {2, DefaultMaxNodes} : UpdateFilter("maxNodes", v)

\* "Solo Conectados": two updateFilter calls, batched into one filter effect
SoloConectados ==
    LET f == [filters EXCEPT !.minConnections = 2, !.maxNodes = 30]
    IN  /\ filters' = f
        /\ RunFilterEffect(nodeObj, allNodes, allEdges, f)
        /\ UNCHANGED <<triplets, allNodes, allEdges, availablePredicates,
                       viewVars, isAnimating, zoomOps>>

NewBatch == \E batch \in Batches, seed \in Seeds : SetTriplets(batch, seed)

\* toggleAnimation, and the commit of the new isAnimating: the animation
\* effect cancels the pending frame and, when started, runs the first tick.
ToggleAnimation ==
    /\ isAnimating' = ~isAnimating
    /\ Commit(nodeObj, visibleNodes, visibleEdges, filters, ~isAnimating)
    /\ UNCHANGED <<triplets, allNodes, allEdges, availablePredicates, filters,
                   viewVars, zoomOps>>

\* The render of a tick's setVisibleNodes: the new array makes a new
\* runForceSimulation, so the animation effect runs again, cancels the
\* pending frame and runs the next tick.
Tick ==
    /\ renderPending
    /\ Commit(nodeObj, visibleNodes, visibleEdges, filters, isAnimating)
    /\ UNCHANGED <<triplets, allNodes, allEdges, availablePredicates, filters,
                   viewVars, isAnimating, zoomOps>>

\* A requested frame arrives before that render: its callback, the
\* runForceSimulation of the render that asked for it, runs a tick, calls
\* setVisibleNodes with its own array and asks for the next frame.
FrameTick ==
    \E fr \in frames :
        LET r == RunForceSimulation(fr.callback, nodeObj, frames \ {fr},
                                    animationRef, ticks)
        IN  /\ r.ran => ticks < MaxTicks
            /\ nodeObj' = r.obj
            /\ visibleNodes' = IF r.ran THEN fr.callback.nodes ELSE visibleNodes
            /\ frames' = r.frames
            /\ animationRef' = r.ref
            /\ renderPending' = (renderPending \/ r.ran)
            /\ ticks' = IF r.ran THEN ticks + 1 ELSE ticks
            /\ UNCHANGED <<triplets, allNodes, allEdges, visibleEdges,
                           availablePredicates, filters, viewVars,
                           isAnimating, queued, surface, zoomOps>>

\* One render and its commit, with the renders that follow it left to
\* Render.  The render ends a handler that set the filters f and the
\* animation flag animating; flush tells whether it takes in the visible
\* lists set before and not yet rendered (a render of a click may leave
\* them to a later render), and filterRuns whether the filter effect runs
\* (the filters changed).  Its effects, in the order of the component: the
\* filter effect writes the layout into the node objects and sets the
\* visible lists; the animation effect, when the lists shown, the layout
\* or the flag changed, cancels the pending frame and runs a tick on the
\* lists shown, which sets the visible nodes again; the render effect
\* draws when the lists shown or showLabels changed.
RenderCommit(f, animating, flush, filterRuns) ==
    LET Done(nodes, edges, shownNew, filtered, r) ==
            /\ r.ran => ticks < MaxLoopTicks
            /\ filters' = f
            /\ isAnimating' = animating
            /\ nodeObj' = r.obj
            /\ visibleNodes' = nodes
            /\ visibleEdges' = edges
            /\ frames' = r.frames
            /\ animationRef' = r.ref
            /\ queued' = IF r.ran THEN [filtered EXCEPT !.nodes = <<nodes>>]
                         ELSE filtered
            /\ renderPending' = (queued' # NoQueue)
            /\ ticks' = IF r.ran THEN ticks + 1 ELSE ticks
            /\ surface' = IF shownNew \/ f.showLabels # filters.showLabels
                          THEN RenderEffect(surface, r.obj, nodes, edges, scale,
                                            offset, f.showLabels)
                          ELSE surface
            /\ UNCHANGED <<triplets, allNodes, allEdges, availablePredicates,
                           viewVars, zoomOps>>
        Effects(nodes, edges, shownNew, laidOut, filtered) ==
            Done(nodes, edges, shownNew, filtered,
                 IF \/ shownNew
                    \/ f.layoutType # filters.layoutType
                    \/ animating # isAnimating
                 THEN AnimationEffect(Closure(nodes, edges, f.layoutType, animating),
                                      laidOut, frames, animationRef, ticks)
                 ELSE [ran |-> FALSE, obj |-> laidOut, frames |-> frames,
                       ref |-> animationRef])
        Rendered(nodes, edges, left, pass) ==
            Effects(nodes, edges, flush /\ queued # NoQueue,
                    IF filterRuns THEN pass.obj ELSE nodeObj,
                    IF filterRuns
                    THEN [nodes |-> <<pass.nodes>>, edges |-> <<pass.edges>>]
                    ELSE left)
    IN  Rendered(IF flush THEN Latest(queued.nodes, visibleNodes) ELSE visibleNodes,
                 IF flush THEN Latest(queued.edges, visibleEdges) ELSE visibleEdges,
                 IF flush THEN NoQueue ELSE queued,
                 FilterPass(nodeObj, allNodes, allEdges, f))

\* The filter changes of a run whose renders are followed one by one: the
\* layout select and the degree slider
LoopFilters ==
    {[filters EXCEPT !.layoutType = v] : v \in {"force", "grid"}}
    \cup {[filters EXCEPT !.minConnections = v] : v \in {0, 2}}

\* A click on a filter control: updateFilter and the render of the click
FilterClick ==
    \E f \in LoopFilters, flush \in BOOLEAN : RenderCommit(f, isAnimating, flush, TRUE)

\* A click on the animation button: toggleAnimation and the render of the
\* click
AnimationClick ==
    \E flush \in BOOLEAN : RenderCommit(filters, ~isAnimating, flush, FALSE)

\* The render of the visible lists set since the last one
Render ==
    /\ queued # NoQueue
    /\ RenderCommit(filters, isAnimating, TRUE, FALSE)

\* A requested frame arrives: its callback, the runForceSimulation of the
\* render that asked for it, runs a tick on the lists of that render, sets
\* the visible nodes and asks for the next frame.
FrameFires ==
    \E fr \in frames :
        LET Ticked(r) ==
                /\ r.ran => ticks < MaxLoopTicks
                /\ nodeObj' = r.obj
                /\ frames' = r.frames
                /\ animationRef' = r.ref
                /\ queued' = IF r.ran
                             THEN [queued EXCEPT !.nodes = <<fr.callback.nodes>>]
                             ELSE queued
                /\ renderPending' = (queued' # NoQueue)
                /\ ticks' = IF r.ran THEN ticks + 1 ELSE ticks
        IN  /\ Ticked(RunForceSimulation(fr.callback, nodeObj, frames \ {fr},
                                         animationRef, ticks))
            /\ UNCHANGED <<triplets, allNodes, allEdges, visibleNodes,
                           visibleEdges, availablePredicates, filters,
                           viewVars, isAnimating, surface, zoomOps>>

\* The triplets prop changes to batch, with the renders that follow up to
\* the one that shows the new visible lists: the graph-building effect,
\* the filter effect, and the animation effect on the new lists.  An empty
\* batch returns early and changes nothing.
TripletsChange(batch, seed) ==
    LET Shown(g, f, pass, r) ==
            /\ r.ran => ticks < MaxLoopTicks
            /\ allNodes' = g.order
            /\ allEdges' = g.edges
            /\ availablePredicates' = g.preds
            /\ filters' = f
            /\ nodeObj' = r.obj
            /\ visibleNodes' = pass.nodes
            /\ visibleEdges' = pass.edges
            /\ frames' = r.frames
            /\ animationRef' = r.ref
            /\ queued' = IF r.ran THEN [NoQueue EXCEPT !.nodes = <<pass.nodes>>]
                         ELSE NoQueue
            /\ renderPending' = r.ran
            /\ ticks' = IF r.ran THEN ticks + 1 ELSE ticks
            /\ surface' = RenderEffect(surface, r.obj, pass.nodes, pass.edges,
                                       scale, offset, f.showLabels)
        Filtered(g, f, pass) ==
            Shown(g, f, pass,
                  AnimationEffect(Closure(pass.nodes, pass.edges, f.layoutType,
                                          isAnimating),
                                  pass.obj, frames, animationRef, ticks))
        Built(g, f) == Filtered(g, f, FilterPass(g.obj, g.order, g.edges, f))
    IN  /\ triplets' = batch
        /\ IF Len(batch) = 0
           THEN UNCHANGED <<nodeObj, allNodes, allEdges, visibleNodes,
                            visibleEdges, availablePredicates, filters,
                            animVars, surface, ticks>>
           ELSE Built(BuildGraph(batch, seed),
                      [filters EXCEPT
                          !.predicates = Range(BuildGraph(batch, seed).preds)])
        /\ UNCHANGED <<viewVars, isAnimating, zoomOps>>

ZoomFactorNum == 12      \* the zoom factor 1.2 is 12 / 10

ZoomFactorDen == 10

MinScaleTenths == 3      \* 0.3

MaxScaleUnits == 3       \* 3

\* ZoomInScale without the upper bound
ZoomInUnbounded(prev) == (prev * ZoomFactorNum) \div ZoomFactorDen

\* prev => Math.min(prev * 1.2, 3)
ZoomInScale(prev) ==
    Min((prev * ZoomFactorNum) \div ZoomFactorDen, MaxScaleUnits * ScaleUnit)

\* ZoomOutScale dividing by 1.1
ZoomOutByLess(prev) ==
    Max((prev * ZoomFactorDen) \div (ZoomFactorNum - 1), (MinScaleTenths * ScaleUnit) \div 10)

\* prev => Math.max(prev / 1.2, 0.3)
ZoomOutScale(prev) ==
    Max((prev * ZoomFactorDen) \div ZoomFactorNum, (MinScaleTenths * ScaleUnit) \div 10)

\* The render effect after a handler changed the transform to (sc, off)
Redraw(sc, off) ==
    surface' = RenderEffect(surface, nodeObj, visibleNodes, visibleEdges,
                            sc, off, filters.showLabels)

ZoomIn ==
    /\ zoomOps < MaxZoomOps
    /\ scale' = ZoomInScale(scale)
    /\ zoomOps' = zoomOps + 1
    /\ Redraw(scale', offset)
    /\ UNCHANGED <<graphVars, offset, isDragging, dragStart, isAnimating,
                   animVars, ticks>>

ZoomOut ==
    /\ zoomOps < MaxZoomOps
    /\ scale' = ZoomOutScale(scale)
    /\ zoomOps' = zoomOps + 1
    /\ Redraw(scale', offset)
    /\ UNCHANGED <<graphVars, offset, isDragging, dragStart, isAnimating,
                   animVars, ticks>>

\* ResetView leaving the offset where it is
ResetScaleOnly ==
    /\ scale' = ScaleUnit
    /\ offset' = offset
    /\ Redraw(scale', offset')
    /\ UNCHANGED <<graphVars, isDragging, dragStart, isAnimating, animVars,
                   ticks, zoomOps>>

ResetView ==
    /\ scale' = ScaleUnit
    /\ offset' = [x |-> 0, y |-> 0]
    /\ Redraw(scale', offset')
    /\ UNCHANGED <<graphVars, isDragging, dragStart, isAnimating, animVars,
                   ticks, zoomOps>>

\* Pointer positions (clientX, clientY) of the mouse events
PointerChoices == {[x |-> 0, y |-> 0], [x |-> 30, y |-> 10]}

MaxPan == 30         \* pans are followed while the offset stays this small

\* The viewport state the mouse handlers read and write
View(sc, off, dragging, start) ==
    [scale |-> sc, offset |-> off, isDragging |-> dragging, dragStart |-> start]

\* A handleMouseDown that forgets the offset at pointer-down
HandleMouseDownAbsolute(v, e) ==
    [v EXCEPT !.isDragging = TRUE, !.dragStart = [x |-> e.x, y |-> e.y]]

\* handleMouseDown with the pointer at e
HandleMouseDown(v, e) ==
    [v EXCEPT !.isDragging = TRUE,
              !.dragStart = [x |-> e.x - v.offset.x, y |-> e.y - v.offset.y]]

\* handleMouseMove with the pointer at e
HandleMouseMove(v, e) ==
    IF v.isDragging
    THEN [v EXCEPT !.offset = [x |-> e.x - v.dragStart.x,
                               y |-> e.y - v.dragStart.y]]
    ELSE v

\* handleMouseUp
HandleMouseUp(v) == [v EXCEPT !.isDragging = FALSE]

\* The handler leaves the viewport state v.
ViewBecomes(v) ==
    /\ scale' = v.scale
    /\ offset' = v.offset
    /\ isDragging' = v.isDragging
    /\ dragStart' = v.dragStart

MouseDown ==
    \E e \in PointerChoices :
        /\ ViewBecomes(HandleMouseDown(View(scale, offset, isDragging, dragStart), e))
        /\ UNCHANGED <<graphVars, isAnimating, animVars, surface, ticks,
                       zoomOps>>

MouseMove ==
    \E e \in PointerChoices :
        /\ ViewBecomes(HandleMouseMove(View(scale, offset, isDragging, dragStart), e))
        /\ Abs(offset'.x) <= MaxPan
        /\ Abs(offset'.y) <= MaxPan
        /\ IF isDragging THEN Redraw(scale, offset') ELSE surface' = surface
        /\ UNCHANGED <<graphVars, isAnimating, animVars, ticks, zoomOps>>

\* handleMouseUp is also bound to onMouseLeave
MouseUp ==
    /\ ViewBecomes(HandleMouseUp(View(scale, offset, isDragging, dragStart)))
    /\ UNCHANGED <<graphVars, isAnimating, animVars, surface, ticks, zoomOps>>

\* The filter controls on a mounted graph
Next ==
    \/ TogglePredicate
    \/ ShowAll
    \/ HideAll
    \/ SetMinConnections
    \/ SetMaxNodes
    \/ SetShowIsolated
    \/ SetSearchTerm

Spec == Init /\ [][Next]_vars

\* The triplets prop changing over the life of the component
NextBuild ==
    \/ NewBatch
    \/ HideAll
    \/ ShowAll

SpecBuild == InitEmpty /\ [][NextBuild]_vars

\* The facts of the batches the layouts and the simulation run on
LayoutFacts == {Fact(Str_A, Str_p1, Str_x), Fact(Str_B, Str_p1, Str_x)}

LayoutBatches == UNION {[1..n -> LayoutFacts] : n \in 0..MaxFacts}

InitLayout == \E batch \in LayoutBatches, seed \in Seeds : Mounted(batch, seed)

\* Layout selection, the quick degree filter and the force simulation
NextLayout ==
    \/ SetLayoutType
    \/ SoloConectados
    \/ ToggleAnimation
    \/ Tick
    \/ FrameTick

SpecLayout == InitLayout /\ [][NextLayout]_vars

\* The batch on the canvas while the viewport controls are used
ViewBatch == <<Fact(Str_A, Str_p1, Str_x)>>

InitView == Mounted(ViewBatch, 0)

\* A new fact batch during the session: none, or the same facts again
Rebuild == \E batch \in {<<>>, ViewBatch} : SetTriplets(batch, 0)

\* The viewport controls, with a graph on the canvas that is filtered and
\* rebuilt meanwhile
NextView ==
    \/ ZoomIn
    \/ ZoomOut
    \/ ResetView
    \/ MouseDown
    \/ MouseMove
    \/ MouseUp
    \/ HideAll
    \/ Rebuild

SpecView == InitView /\ [][NextView]_vars

\* The viewport controls, with a graph on the canvas that is filtered and
\* whose simulation is started and stopped meanwhile
NextSession ==
    \/ ZoomIn
    \/ ZoomOut
    \/ ResetView
    \/ MouseDown
    \/ MouseMove
    \/ MouseUp
    \/ HideAll
    \/ ToggleAnimation

SpecSession == InitView /\ [][NextSession]_vars

\* Two nodes joined by one edge
PairBatch == <<Fact(Str_A, Str_p1, Str_x)>>

\* One node with an edge to itself (its subject reads like its object's id)
LoopBatch == <<Fact(Str_x0, Str_p1, Str_x)>>

InitPair ==
    \E batch \in {PairBatch, LoopBatch}, seed \in PairSeeds : Mounted(batch, seed)

\* The force simulation on a pair seeded symmetrically
NextPair ==
    \/ ToggleAnimation
    \/ Tick
    \/ FrameTick

SpecPair == InitPair /\ [][NextPair]_vars

\* Facts whose two predicates shorten to the same label "p"
LabelFacts ==
    {Fact(Str_A, Str_ap, Str_x), Fact(Str_A, Str_bp, Str_y),
     Fact(Str_B, Str_ap, Str_x)}

LabelBatches == UNION {[1..n -> LabelFacts] : n \in 0..MaxFacts}

InitLabels == \E batch \in LabelBatches : Mounted(batch, 0)

\* The predicate controls on a graph with equal edge labels
NextLabels ==
    \/ TogglePredicate
    \/ ShowAll
    \/ HideAll
    \/ SetShowIsolated

SpecLabels == InitLabels /\ [][NextLabels]_vars

\* The first facts of the scenario
CriteriaBatches == {SliceTo(ScenarioBatch, n) : n \in 0..MaxFacts}

InitCriteria == \E batch \in CriteriaBatches : Mounted(batch, 0)

\* Every node criterion, with the predicate, isolated-node and cap criteria
NextCriteria ==
    \/ SetNodeTypes
    \/ SetMinConnections
    \/ SetMaxConnections
    \/ SetCaseTerm
    \/ TogglePredicate
    \/ SetShowIsolated
    \/ SetCap

SpecCriteria == InitCriteria /\ [][NextCriteria]_vars

\* k facts of one subject: a subject node of degree k
StarBatch(k) == [i \in 1..k |-> Fact(Str_A, Str_p1, Str_x)]

InitStyle == \E k \in 0..MaxDegree : Mounted(StarBatch(k), 0)

\* What the drawing of a node could depend on: the zoom, the labels, the
\* layout and the shown predicates
NextStyle ==
    \/ ZoomIn
    \/ ZoomOut
    \/ SetShowLabels
    \/ SetLayoutType
    \/ HideAll
    \/ ShowAll

SpecStyle == InitStyle /\ [][NextStyle]_vars

\* Mounted with any batch, the one with colliding node ids included
InitSolo == \E batch \in Batches : Mounted(batch, 0)

\* The degree filter and the criteria it is combined with
NextSolo ==
    \/ SoloConectados
    \/ SetMinConnections
    \/ TogglePredicate
    \/ SetShowIsolated
    \/ SetCap

SpecSolo == InitSolo /\ [][NextSolo]_vars

InitLoop == Mounted(PairBatch, 2)

\* A new fact batch during the run: none, or the same facts again
LoopRebuild == \E batch \in {<<>>, PairBatch} : TripletsChange(batch, 2)

\* The animation loop with its renders followed one by one: clicks, the
\* renders they leave pending, frames arriving in between, and rebuilds
NextLoop ==
    \/ AnimationClick
    \/ FilterClick
    \/ Render
    \/ FrameFires
    \/ LoopRebuild

SpecLoop == InitLoop /\ [][NextLoop]_vars

\* FrameFires can take a step: a frame is pending, and the tick of its
\* callback is within the ticks followed
FrameReady ==
    \E fr \in frames :
        (fr.callback.isAnimating /\ fr.callback.layoutType = "force")
            => ticks < MaxLoopTicks

\* Weak fairness of FrameFires, with FrameReady written for its ENABLED:
\* a frame that stays pending arrives
FrameFairness == []<>(~FrameReady) \/ []<><<FrameFires>>_vars

\* The same run in a browser that delivers every requested frame
SpecLoopFair == SpecLoop /\ FrameFairness

-----------------------------------------------------------------------------
(* Graph Builder properties *)

DistinctSubjects(facts) == {facts[i].subject : i \in 1..Len(facts)}

\* C1: the graph built from a fact batch has one edge per fact and
\* |distinct subjects| + |facts| nodes: a node per distinct subject and an
\* object node of its own per fact, whatever the strings are.
C1_GraphSize ==
    Len(triplets) > 0 =>
        /\ Len(allEdges) = Len(triplets)
        /\ Len(allNodes) = Cardinality(DistinctSubjects(triplets)) + Len(triplets)

\* C6: the node set and the edge set are those built from the current batch
\* alone; with an empty current batch they and the visible sets are empty.
C6_LatestBatchOnly ==
    LET g == BuildGraph(triplets, 0)
    IN  /\ allNodes = g.order
        /\ allEdges = g.edges
        /\ Len(triplets) = 0 => (visibleNodes = <<>> /\ visibleEdges = <<>>)

\* Number of edges of the list that have the node id as source or target
IncidentEdges(edges, id) ==
    Cardinality({i \in 1..Len(edges) :
                    edges[i].source = id \/ edges[i].target = id})

\* C14: in every reachable state each node's degree (connections) is the
\* number of edges of the unfiltered edge list that have the node as
\* source or target.
C14_DegreeIsIncidence ==
    \A id \in Range(allNodes) :
        nodeObj[id].connections = IncidentEdges(allEdges, id)

NodesOfType(type) == {id \in Range(allNodes) : nodeObj[id].type = type}

\* C22: the graph built from the facts [(A,p1,"x"), (A,p2,"y"), (B,p1,"x")]
\* has the 2 subject nodes A and B, 3 object nodes, 3 edges, the predicate
\* inventory {p1, p2}, degree 2 for A and degree 1 for B.
C22_ScenarioGraph ==
    triplets = ScenarioBatch =>
        /\ NodesOfType("subject") = {Str_A, Str_B}
        /\ Cardinality(NodesOfType("object")) = 3
        /\ Len(allNodes) = 5
        /\ Len(allEdges) = 3
        /\ Range(availablePredicates) = {Str_p1, Str_p2}
        /\ Len(availablePredicates) = 2
        /\ nodeObj[Str_A].connections = 2
        /\ nodeObj[Str_B].connections = 1

\* The scenario's graph was built and is shown whole: the two facts with
\* the object "x" have an object node each.
C22_Witness ==
    /\ triplets = ScenarioBatch
    /\ filters.predicates = {Str_p1, Str_p2}
    /\ {ObjectId(Str_x, 0), ObjectId(Str_x, 2)} \subseteq Range(visibleNodes)
    /\ Len(visibleEdges) = 3

-----------------------------------------------------------------------------
(* Filter Engine properties *)

IdsOf(nodes) == Range(nodes)

\* filteredNodes before the maxNodes step, in the current state
CurrentSurvivors == Survivors(nodeObj, allNodes, allEdges, filters)

\* The maxNodes step cut nodes away in the current state.
CapBinds == Len(CurrentSurvivors) > filters.maxNodes

\* C2: every visible edge has its source and its target among the visible
\* nodes, for every combination of filter criteria.
C2_NoDanglingEdges ==
    \A i \in 1..Len(visibleEdges) :
        /\ visibleEdges[i].source \in IdsOf(visibleNodes)
        /\ visibleEdges[i].target \in IdsOf(visibleNodes)

\* The isolated-node step and the node cap both acted, the cap dropped an
\* edge and kept another.
C2_Witness ==
    /\ ~filters.showIsolatedNodes
    /\ CapBinds
    /\ visibleEdges # <<>>
    /\ Len(visibleEdges) < Len(FilteredEdges(nodeObj, allNodes, allEdges, filters))

\* C3: after a filter pass the number of visible nodes is at most maxNodes
\* (maxNodes >= 0).
C3_NodeCap ==
    filters.maxNodes >= 0 => Len(visibleNodes) <= filters.maxNodes

\* The cap cut a longer list down to a positive maxNodes.
C3_Witness ==
    /\ CapBinds
    /\ filters.maxNodes > 0
    /\ Len(visibleNodes) = filters.maxNodes

\* a goes before b in the cap's order: higher degree first, equal degrees
\* in the order of the list s
CapBefore(s, a, b) ==
    \/ nodeObj[a].connections > nodeObj[b].connections
    \/ /\ nodeObj[a].connections = nodeObj[b].connections
       /\ IndexOf(s, a) < IndexOf(s, b)

\* C4: when the cap binds, the visible nodes are the first maxNodes of the
\* survivors by descending degree, equal degrees in insertion order: every
\* kept node goes before every dropped node, and the kept ones are in that
\* order.
C4_TopDegreeKept ==
    CapBinds =>
        LET S == CurrentSurvivors
            kept == IdsOf(visibleNodes)
        IN  /\ Len(visibleNodes) = Max(filters.maxNodes, 0)
            /\ kept \subseteq IdsOf(S)
            /\ \A k \in kept : \A d \in IdsOf(S) \ kept : CapBefore(S, k, d)
            /\ \A i, j \in 1..Len(visibleNodes) :
                   i < j => CapBefore(S, visibleNodes[i], visibleNodes[j])

\* The cap cut between two nodes of equal degree, and moved a node of
\* higher degree ahead of an earlier one.
C4_Witness ==
    /\ CapBinds
    /\ \E k \in IdsOf(visibleNodes) : \E d \in IdsOf(CurrentSurvivors) \ IdsOf(visibleNodes) :
           nodeObj[k].connections = nodeObj[d].connections
    /\ \E k \in IdsOf(visibleNodes) : \E d \in IdsOf(CurrentSurvivors) \ IdsOf(visibleNodes) :
           /\ nodeObj[k].connections > nodeObj[d].connections
           /\ IndexOf(CurrentSurvivors, d) < IndexOf(CurrentSurvivors, k)

\* The scenario of C5: the three facts, minConnections = 2, maxNodes = 10,
\* every other criterion at its default.
InScenario ==
    /\ triplets = ScenarioBatch
    /\ filters = [InitFilters EXCEPT !.predicates = {Str_p1, Str_p2},
                                     !.minConnections = 2,
                                     !.maxNodes = 10]

\* C5 as stated: node A and its two object nodes are visible with the two
\* edges from A, and the edge from B is dropped.
C5_AsStated ==
    InScenario =>
        /\ IdsOf(visibleNodes) = {Str_A, ObjectId(Str_x, 0), ObjectId(Str_y, 1)}
        /\ visibleEdges = <<NewEdge(Str_A, ObjectId(Str_x, 0), Str_p1),
                            NewEdge(Str_A, ObjectId(Str_y, 1), Str_p2)>>

\* C5 amended: in the scenario node A alone is visible and no edge is: the
\* object nodes have degree 1 and fall to minConnections = 2, and with them
\* every edge.
C5_OnlySubjectA ==
    InScenario => (visibleNodes = <<Str_A>> /\ visibleEdges = <<>>)

C5_Witness == InScenario /\ Len(allNodes) = 5 /\ Len(allEdges) = 3

\* Two characters that are the same letter in either case
SameLetter(a, b) == LowerChar(a) = LowerChar(b)

\* s contains t, compared case-insensitively
ContainsIgnoreCase(s, t) ==
    \E k \in 0..(Len(s) - Len(t)) :
        \A i \in 1..Len(t) : SameLetter(s[k + i], t[i])

\* The three node tests of the claim
PassesNodeTests(node, f) ==
    /\ node.type \in f.nodeTypes
    /\ f.minConnections <= node.connections
    /\ node.connections <= f.maxConnections
    /\ (f.searchTerm = <<>> \/ ContainsIgnoreCase(node.label, f.searchTerm))

\* The nodes that pass the three tests, in the order of the node list
TestedNodes == SelectSeq(allNodes, LAMBDA id : PassesNodeTests(nodeObj[id], filters))

\* The edges with a selected predicate between nodes that pass the tests
TestedEdges ==
    SelectSeq(allEdges, LAMBDA e : /\ e.predicate \in filters.predicates
                                   /\ e.source \in Range(TestedNodes)
                                   /\ e.target \in Range(TestedNodes))

EndsOf(edges) ==
    {e.source : e \in Range(edges)} \cup {e.target : e \in Range(edges)}

\* C23: a node survives filter steps 1-3 exactly when its role is allowed,
\* its degree is within [minDegree, maxDegree] and the search term is
\* empty or contained in its label whatever the case; and the later steps
\* work on those survivors: the edge step keeps the selected edges between
\* them, the isolated-node step keeps those of them an edge touches, and
\* the cap cuts that list.
C23_NodeTestsFirst ==
    LET connected == SelectSeq(TestedNodes, LAMBDA id : id \in EndsOf(TestedEdges))
        beforeCap == IF filters.showIsolatedNodes THEN TestedNodes ELSE connected
    IN  /\ FilteredNodes(nodeObj, allNodes, filters) = TestedNodes
        /\ IdsOf(visibleNodes) \subseteq Range(TestedNodes)
        /\ Range(visibleEdges) \subseteq Range(TestedEdges)
        /\ Len(beforeCap) <= filters.maxNodes =>
               (visibleNodes = beforeCap /\ visibleEdges = TestedEdges)
        /\ Len(beforeCap) > filters.maxNodes =>
               (/\ Len(visibleNodes) = filters.maxNodes
                /\ IdsOf(visibleNodes) \subseteq Range(beforeCap))

\* The role test has dropped the object nodes and the degree test node B;
\* the search term "a" keeps node A, whose label is "A"; the edges are
\* gone with their dropped ends.
C23_Witness ==
    /\ triplets = ScenarioBatch
    /\ filters.nodeTypes = {"subject"}
    /\ filters.minConnections = 2
    /\ filters.searchTerm = <<"a">>
    /\ filters.showIsolatedNodes
    /\ filters.predicates # {}
    /\ visibleNodes = <<Str_A>>
    /\ visibleEdges = <<>>

\* C24 as stated: when isolated nodes are not shown, every visible node is
\* the source or the target of a visible edge, whether the node cap cut
\* the list or not.
C24_AsStated ==
    ~filters.showIsolatedNodes =>
        \A id \in IdsOf(visibleNodes) : id \in EndsOf(visibleEdges)

\* C24 amended: when isolated nodes are not shown, every visible node is
\* an end of an edge that survived the predicate and endpoint tests, and
\* when the node cap does not bind, of a visible edge.
C24_ConnectedBeforeCap ==
    ~filters.showIsolatedNodes =>
        /\ \A id \in IdsOf(visibleNodes) :
               id \in EndsOf(FilteredEdges(nodeObj, allNodes, allEdges, filters))
        /\ ~CapBinds =>
               \A id \in IdsOf(visibleNodes) : id \in EndsOf(visibleEdges)

\* The isolated-node step dropped a node and kept others, and the cap did
\* not bind.
C24_Witness ==
    /\ ~filters.showIsolatedNodes
    /\ ~CapBinds
    /\ visibleNodes # <<>>
    /\ Len(visibleNodes) < Len(FilteredNodes(nodeObj, allNodes, filters))

\* C30: every object node has degree exactly 1, and with minDegree >= 2,
\* whatever the facts and the other criteria, no object node and no edge
\* is visible.
C30_NoObjectAtMinTwo ==
    /\ \A id \in NodesOfType("object") : nodeObj[id].connections = 1
    /\ filters.minConnections >= 2 =>
           /\ \A id \in IdsOf(visibleNodes) : nodeObj[id].type # "object"
           /\ visibleEdges = <<>>

\* C30 on the batches in which no subject reads like an object node's id
C30_WithoutCollision ==
    (\A i \in 1..Len(triplets) : triplets[i].subject # Str_x0)
        => C30_NoObjectAtMinTwo

\* C15: after a filter pass a node's visible flag is true exactly when the
\* node is in the visible node list, and an edge's visible flag is true
\* exactly when the edge is in the visible edge list.
C15_VisibleFlagDerived ==
    /\ \A id \in Range(allNodes) :
           nodeObj[id].visible <=> id \in Range(visibleNodes)
    /\ \A i \in 1..Len(allEdges) :
           allEdges[i].visible <=> allEdges[i] \in Range(visibleEdges)

\* A step that is no filter setter: a new fact batch, a tick or a viewport
\* action
NoSetterStep ==
    \/ NewBatch
    \/ Tick
    \/ FrameTick
    \/ ZoomIn
    \/ ZoomOut
    \/ ResetView
    \/ MouseDown
    \/ MouseMove
    \/ MouseUp

\* C16: a graph rebuild on a new fact batch, a simulation tick and every
\* viewport action leave every field of the filters, the selected
\* predicates included, as it was.
C16_FiltersFrame == [][NoSetterStep => filters' = filters]_vars

\* C17: when a filter pass leaves no visible node, the canvas shows an
\* empty graph: no node and no edge of an earlier drawing.
C17_EmptyRender ==
    visibleNodes = <<>> => (surface.nodes = <<>> /\ surface.edges = <<>>)

\* C20: the edge of each fact carries the fact's predicate unchanged as
\* its key and the shortened predicate as its label, and the predicate
\* filter goes by the key: while no node criterion drops a node, an edge
\* is visible exactly when its own predicate is selected, whatever its
\* label.
C20_PredicateKeyKept ==
    /\ \A i \in 1..Len(allEdges) :
           /\ allEdges[i].predicate = triplets[i].predicate
           /\ allEdges[i].label = LastSegment(triplets[i].predicate)
    /\ \A i \in 1..Len(allEdges) :
           allEdges[i] \in Range(visibleEdges)
               <=> allEdges[i].predicate \in filters.predicates

\* Two edges with the same label and different predicates, one shown and
\* one hidden.
C20_Witness ==
    \E i, j \in 1..Len(allEdges) :
        /\ allEdges[i].label = allEdges[j].label
        /\ allEdges[i].predicate # allEdges[j].predicate
        /\ allEdges[i].label # allEdges[i].predicate
        /\ allEdges[i] \in Range(visibleEdges)
        /\ allEdges[j] \notin Range(visibleEdges)

-----------------------------------------------------------------------------
(* Layout Engine properties *)

\* A step taken through a filter control: one filter pass
FilterControl ==
    \/ TogglePredicate
    \/ ShowAll
    \/ HideAll
    \/ SetMinConnections
    \/ SetMaxNodes
    \/ SetShowIsolated
    \/ SetSearchTerm
    \/ SetLayoutType
    \/ SoloConectados

\* C7: a filter pass leaves the unfiltered node list and edge list as they
\* were: same members, same order, every field of every node and edge,
\* positions included.
C7_FilterLeavesInput ==
    [][FilterControl =>
          /\ allNodes' = allNodes
          /\ allEdges' = allEdges
          /\ \A id \in IdsOf(allNodes) : nodeObj'[id] = nodeObj[id]]_vars

StaticLayouts == {"circular", "grid", "hierarchical"}

\* C8: Circular, Grid and Hierarchical are idempotent on the ordered
\* visible node list: a second application leaves every node where the
\* first put it, whatever positions and velocities the nodes had.
C8_LayoutIdempotent ==
    \A layoutType \in StaticLayouts :
        LET once == ApplyLayout(nodeObj, visibleNodes, layoutType)
        IN  ApplyLayout(once, visibleNodes, layoutType) = once

\* Simulated nodes with a velocity, which each of the three layouts moves.
C8_Witness ==
    /\ ticks > 0
    /\ Len(visibleNodes) >= 2
    /\ \E id \in IdsOf(visibleNodes) : nodeObj[id].vx # 0 /\ nodeObj[id].vy # 0
    /\ \A layoutType \in StaticLayouts :
           \A id \in IdsOf(visibleNodes) :
               ApplyLayout(nodeObj, visibleNodes, layoutType)[id] # nodeObj[id]

\* A step in which runForceSimulation moved the nodes
TickRan == ticks' = ticks + 1

InCanvas(node) ==
    /\ BoundLow * PosScale <= node.x
    /\ node.x <= BoundHigh * PosScale
    /\ BoundLow * PosScale <= node.y
    /\ node.y <= BoundHigh * PosScale

\* C9: after a Force tick every visible node is inside the canvas bounds,
\* 20 <= x <= 380 and 20 <= y <= 380, wherever it was before the tick.
C9_TickInBounds ==
    [][TickRan => \A id \in IdsOf(visibleNodes') : InCanvas(nodeObj'[id])]_vars

\* A tick has run and left a node on the lower bound and a node on the
\* upper bound: nodes seeded outside the bounds were clamped.
C9_Witness ==
    /\ ticks > 0
    /\ filters.layoutType = "force"
    /\ \E id \in IdsOf(visibleNodes) :
           nodeObj[id].x = BoundLow * PosScale \/ nodeObj[id].y = BoundLow * PosScale
    /\ \E id \in IdsOf(visibleNodes) :
           nodeObj[id].x = BoundHigh * PosScale \/ nodeObj[id].y = BoundHigh * PosScale

-----------------------------------------------------------------------------
(* Viewport properties *)

RECURSIVE ZoomInTimes(_, _)
ZoomInTimes(s, k) == IF k = 0 THEN s ELSE ZoomInTimes(ZoomInScale(s), k - 1)

RECURSIVE ZoomOutTimes(_, _)
ZoomOutTimes(s, k) == IF k = 0 THEN s ELSE ZoomOutTimes(ZoomOutScale(s), k - 1)

\* Each zoom step rounds by less than one scale unit.
ScaleTolerance == 2 * MaxZoomSteps

RoundTripReturns(s, k) ==
    Abs(ZoomOutTimes(ZoomInTimes(s, k), k) - s) <= ScaleTolerance

\* None of k zoom-in steps from s is cut at the upper bound.
NoZoomInCut(s, k) ==
    \A j \in 0..(k - 1) :
        (ZoomInTimes(s, j) * ZoomFactorNum) \div ZoomFactorDen <= MaxScaleUnits * ScaleUnit

\* C10 as stated: from every reachable scale, k zoom-in steps and then k
\* zoom-out steps return the scale, within tolerance, for every k.
C10_AsStated ==
    \A k \in 0..MaxZoomSteps : RoundTripReturns(scale, k)

\* C10 amended: from every reachable scale s, k zoom-in steps and then k
\* zoom-out steps return the scale within tolerance, for every k whose
\* zoom-in steps stay under the upper bound (s * 1.2^k <= 3).
C10_RoundTripBelowMax ==
    \A k \in 0..MaxZoomSteps : NoZoomInCut(scale, k) => RoundTripReturns(scale, k)

\* A scale reached by zooming, from which two steps in and out stay under
\* the bound and do not return the very same number.
C10_Witness ==
    /\ zoomOps > 0
    /\ scale # ScaleUnit
    /\ NoZoomInCut(scale, 2)
    /\ ZoomOutTimes(ZoomInTimes(scale, 2), 2) # scale

MinScale == (MinScaleTenths * ScaleUnit) \div 10

MaxScale == MaxScaleUnits * ScaleUnit

\* C11: in every reachable state, after any zoom, reset-view, pan, filter
\* and rebuild actions, the viewport scale is between 0.3 and 3.0.
C11_ScaleInBounds == MinScale <= scale /\ scale <= MaxScale

\* Zooming in was cut at the upper bound, after a pan, a filter change and
\* a new fact batch.
C11_Witness ==
    /\ scale = MaxScale
    /\ zoomOps >= 7
    /\ filters.predicates = {}
    /\ triplets = <<>>
    /\ offset # [x |-> 0, y |-> 0]

\* Pointer positions of a drag
DragPoints == [x : {-15, 0, 30}, y : {0, 10}]

\* The viewport state after pointer-down at p0, moves to each point of
\* moves in turn, and pointer-up
RECURSIVE MovesFrom(_, _, _)
MovesFrom(v, moves, i) ==
    IF i > Len(moves) THEN v
    ELSE MovesFrom(HandleMouseMove(v, moves[i]), moves, i + 1)

AfterDrag(v, p0, moves) ==
    HandleMouseUp(MovesFrom(HandleMouseDown(v, p0), moves, 1))

MaxMoves == 2        \* pointer moves of a drag

MoveSeqs == UNION {[1..n -> DragPoints] : n \in 0..MaxMoves}

\* C28: from every reachable viewport state, a pointer-down at p0, moves
\* ending at p1 and a pointer-up leave the offset at its value at
\* pointer-down plus (p1 - p0) (unchanged when there was no move), the
\* scale as it was and the drag ended; and outside a drag a pointer move
\* changes nothing.
C28_DragTranslates ==
    LET v == View(scale, offset, isDragging, dragStart)
    IN  /\ \A p0 \in DragPoints : \A moves \in MoveSeqs :
               LET after == AfterDrag(v, p0, moves)
                   p1 == IF moves = <<>> THEN p0 ELSE moves[Len(moves)]
               IN  /\ after.offset = [x |-> offset.x + (p1.x - p0.x),
                                      y |-> offset.y + (p1.y - p0.y)]
                   /\ after.scale = scale
                   /\ ~after.isDragging
        /\ ~isDragging => \A p \in DragPoints : HandleMouseMove(v, p) = v

\* A drag from (30, 10) to (0, 0) on a zoomed canvas has ended: the offset
\* went from (0, 0) to (-30, -10).
C28_Witness ==
    /\ ~isDragging
    /\ dragStart = [x |-> 30, y |-> 10]
    /\ offset = [x |-> -30, y |-> -10]
    /\ scale # ScaleUnit
    /\ surface.translate = offset

Positions(obj) == [id \in DOMAIN obj |-> [x |-> obj[id].x, y |-> obj[id].y]]

\* C12: from any state, reset view sets the scale to 1 and the offset to
\* (0, 0), and leaves the filter criteria, the animation state and every
\* node position as they were.
C12_ResetViewFrame ==
    [][ResetView =>
          /\ scale' = ScaleUnit
          /\ offset' = [x |-> 0, y |-> 0]
          /\ filters' = filters
          /\ isAnimating' = isAnimating
          /\ frames' = frames
          /\ Positions(nodeObj') = Positions(nodeObj)]_vars

\* After one zoom step the scale is 1 again, and the offset is (0, 0) with
\* a drag start that only a pan leaves: reset view has acted, on a graph
\* whose simulation has moved the nodes and whose predicates are hidden.
C12_Witness ==
    /\ zoomOps = 1
    /\ scale = ScaleUnit
    /\ offset = [x |-> 0, y |-> 0]
    /\ dragStart = [x |-> 60, y |-> 20]
    /\ isAnimating
    /\ ticks > 0
    /\ filters.predicates = {}

-----------------------------------------------------------------------------
(* Render Pipeline properties *)

\* clamp(8 + 2 * degree, 8, 20)
ClampedRadius(degree) ==
    LET r == NodeSizeMin + NodeSizeStep * degree
    IN  IF r < NodeSizeMin THEN NodeSizeMin
        ELSE IF r > NodeSizeMax THEN NodeSizeMax ELSE r

\* C27: every drawn node has the radius clamp(8 + 2 * degree, 8, 20), which
\* is within [8, 20] and non-decreasing in the degree, and the
\* high-connectivity colour when its degree is above 5 and the colour of
\* its role otherwise; two nodes of the same role and degree are drawn
\* alike, whatever the zoom, the labels, the layout and their positions.
C27_NodeStyle ==
    visibleNodes # <<>> =>
        /\ Len(surface.nodes) = Len(visibleNodes)
        /\ \A i \in 1..Len(visibleNodes) :
               LET node == nodeObj[visibleNodes[i]]
                   drawn == surface.nodes[i]
               IN  /\ drawn.radius = ClampedRadius(node.connections)
                   /\ NodeSizeMin <= drawn.radius /\ drawn.radius <= NodeSizeMax
                   /\ node.connections > HighDegree => drawn.fill = "#ef4444"
                   /\ (node.connections <= HighDegree /\ node.type = "subject")
                          => drawn.fill = "#3b82f6"
                   /\ (node.connections <= HighDegree /\ node.type = "object")
                          => drawn.fill = "#f59e0b"
        /\ \A i, j \in 1..Len(visibleNodes) :
               LET a == nodeObj[visibleNodes[i]]
                   b == nodeObj[visibleNodes[j]]
               IN  /\ a.connections <= b.connections
                          => surface.nodes[i].radius <= surface.nodes[j].radius
                   /\ (a.connections = b.connections /\ a.type = b.type)
                          => /\ surface.nodes[i].radius = surface.nodes[j].radius
                             /\ surface.nodes[i].fill = surface.nodes[j].fill

\* A subject of degree 7 is drawn with the largest radius in the
\* high-connectivity colour next to its objects of degree 1, on a zoomed
\* canvas without labels in a static layout.
C27_Witness ==
    /\ \E i \in 1..Len(surface.nodes) :
           /\ nodeObj[visibleNodes[i]].connections = MaxDegree
           /\ surface.nodes[i].radius = NodeSizeMax
           /\ surface.nodes[i].fill = "#ef4444"
    /\ \E i \in 1..Len(surface.nodes) :
           /\ nodeObj[visibleNodes[i]].connections = 1
           /\ surface.nodes[i].radius = NodeSizeMin + NodeSizeStep
           /\ surface.nodes[i].fill = "#f59e0b"
    /\ scale > ScaleUnit
    /\ ~filters.showLabels
    /\ filters.layoutType = "grid"

-----------------------------------------------------------------------------
(* Animation loop properties *)

\* C13: ticks run only in the animating state.  While the animation is
\* off, at the start and after every stop, no frame is pending; every step
\* in which a tick runs ends in the animating state; and while the
\* animation stays off and the filters stay as they are, no node moves.
C13_TicksOnlyWhileAnimating ==
    /\ [](~isAnimating => frames = {})
    /\ [][TickRan => isAnimating']_vars
    /\ [][(~isAnimating /\ ~isAnimating' /\ filters' = filters)
             => Positions(nodeObj') = Positions(nodeObj)]_vars

\* The simulation was started, ran ticks and was stopped: the frame that
\* animationRef names is no longer pending.
C13_Witness ==
    /\ ~isAnimating
    /\ ticks > 0
    /\ animationRef # 0
    /\ frames = {}
    /\ filters.layoutType = "force"

\* C25: at most one frame is requested and not yet run at any time, and
\* it is the one animationRef names; a frame that arrives is that one, so
\* a frame that was replaced or cancelled never runs.
C25_SingleInFlight ==
    /\ [](Cardinality(frames) <= 1)
    /\ [](\A fr \in frames : fr.handle = animationRef)
    /\ [][FrameFires => \A fr \in frames \ frames' : fr.handle = animationRef]_vars

\* A frame requested before a filter click arrived after it: its tick ran
\* on the lists of the older render and set them again, over the lists the
\* filter had set, and the frame it asked for is the only one pending.
C25_Witness ==
    /\ isAnimating
    /\ ticks >= 2
    /\ filters.minConnections = 2
    /\ Cardinality(frames) = 1
    /\ \E fr \in frames :
           /\ fr.handle = animationRef
           /\ fr.callback.nodes # <<>>
           /\ queued.nodes = <<fr.callback.nodes>>
    /\ queued.edges = <<<<>>>>

Animated == isAnimating /\ filters.layoutType = "force"

\* C26: while the animation is on with the Force layout, the k-th tick is
\* followed by another one, on an empty visible list too, unless the
\* animation is stopped or another layout is selected (k below the number
\* of ticks followed): every tick has asked for the frame that runs the
\* next one.
C26_TickReschedules ==
    \A k \in 1..(MaxLoopTicks - 1) :
        (ticks = k /\ Animated) ~> (ticks > k \/ ~Animated)

\* Every tick asks for the next frame, with a callback that will run a
\* tick, so a frame is pending whenever the animation is on with the Force
\* layout.
TickAsksForFrame ==
    /\ [][TickRan =>
            \E fr \in frames' :
                /\ fr.handle = animationRef'
                /\ fr.callback.isAnimating
                /\ fr.callback.layoutType = "force"]_vars
    /\ [](Animated => frames # {})

\* The ticks went on to the last one followed on an empty visible list.
C26_Witness ==
    /\ Animated
    /\ ticks = MaxLoopTicks
    /\ visibleNodes = <<>>
    /\ queued.nodes = <<<<>>>>
    /\ \E fr \in frames : fr.handle = animationRef /\ fr.callback.nodes = <<>>

-----------------------------------------------------------------------------
(* Force simulation properties *)

PairA == Str_A

PairX == ObjectId(Str_x, 0)

\* The squared distance between the two nodes of the pair
PairDist2(obj) ==
    Dist2(obj[PairA].x - obj[PairX].x, obj[PairA].y - obj[PairX].y)

\* The two nodes mirror each other about the canvas centre.
Symmetric(obj) ==
    /\ obj[PairA].x + obj[PairX].x = 2 * CenterX * PosScale
    /\ obj[PairA].y + obj[PairX].y = 2 * CenterY * PosScale

\* The pair as seeded: two visible nodes joined by the one edge, at rest
PairAtStart ==
    /\ triplets = PairBatch
    /\ ticks = 0
    /\ Symmetric(nodeObj)

\* The node objects after n ticks on the visible nodes and edges
RECURSIVE TickTimes(_, _)
TickTimes(obj, n) ==
    IF n = 0 THEN obj
    ELSE TickTimes(ForceTick(obj, visibleNodes, visibleEdges), n - 1)

\* After n ticks from the current state the pair is closer than it is now,
\* and inside the canvas bounds.
CloserAfter(n) ==
    LET after == TickTimes(nodeObj, n)
    IN  /\ PairDist2(after) < PairDist2(nodeObj)
        /\ InCanvas(after[PairA])
        /\ InCanvas(after[PairX])

StartsApart(obj) ==
    PairDist2(obj) >= RepulsionRange * RepulsionRange * PosScale * PosScale

Finite(v) == Abs(v) < NonFinite

SamePlace(a, b) == a.x = b.x /\ a.y = b.y

\* C19: a pair of visible nodes at zero distance has no repulsion term, an
\* edge whose ends are at the same place has no attraction term, and
\* every position and velocity is finite.
C19_ZeroDistanceGuarded ==
    /\ \A a, b \in IdsOf(visibleNodes) :
           (a # b /\ SamePlace(nodeObj[a], nodeObj[b])) =>
               Repulsion(nodeObj[a], nodeObj[b]) = [vx |-> 0, vy |-> 0]
    /\ \A i \in 1..Len(visibleEdges) :
           SamePlace(nodeObj[visibleEdges[i].source], nodeObj[visibleEdges[i].target])
               => Attract(nodeObj, visibleNodes, visibleEdges[i]) = nodeObj
    /\ \A id \in DOMAIN nodeObj :
           /\ Finite(nodeObj[id].x) /\ Finite(nodeObj[id].y)
           /\ Finite(nodeObj[id].vx) /\ Finite(nodeObj[id].vy)

\* Ticks have run on two nodes at the same place joined by an edge.
C19_Witness ==
    /\ triplets = PairBatch
    /\ ticks > 0
    /\ SamePlace(nodeObj[PairA], nodeObj[PairX])
    /\ visibleNodes = <<PairA, PairX>>
    /\ Len(visibleEdges) = 1

\* Distinct visible nodes are at distinct positions.
NoOverlap(obj, nodes) ==
    \A i, j \in 1..Len(nodes) :
        i # j => ~SamePlace(obj[nodes[i]], obj[nodes[j]])

\* C29: under the Grid and the Hierarchical layout no two distinct visible
\* nodes are at the same position, however many nodes of each role are
\* visible.
C29_NoOverlap ==
    filters.layoutType \in {"grid", "hierarchical"}
        => NoOverlap(nodeObj, visibleNodes)

\* The Grid part of C29 alone
GridNoOverlap ==
    filters.layoutType = "grid" => NoOverlap(nodeObj, visibleNodes)

-----------------------------------------------------------------------------
(* Layout switching properties *)

\* The positions of the visible nodes are those the static layout assigns.
AtLayoutPositions(obj, nodes, layoutType) ==
    \A i \in 1..Len(nodes) :
        /\ obj[nodes[i]].x = LayoutPos(obj, nodes, i, layoutType).x
        /\ obj[nodes[i]].y = LayoutPos(obj, nodes, i, layoutType).y

\* C21 as stated: a step that ends with a strategy other than Force, the
\* step that switches away from Force included, changes no node position.
C21_AsStated ==
    [][filters'.layoutType # "force"
          => Positions(nodeObj') = Positions(nodeObj)]_vars

\* C21 amended: a step that ends with a strategy other than Force runs no
\* tick and leaves the visible nodes at the positions that strategy
\* assigns and the other nodes where they were; the step that reselects
\* Force keeps every position when the animation is off and runs one tick
\* from the current positions when it is on.
C21_StaticLayoutHolds ==
    /\ [][filters'.layoutType # "force" =>
            /\ ~TickRan
            /\ AtLayoutPositions(nodeObj', visibleNodes', filters'.layoutType)
            /\ \A id \in DOMAIN nodeObj \ IdsOf(visibleNodes') :
                   nodeObj'[id] = nodeObj[id]]_vars
    /\ [][(filters.layoutType # "force" /\ filters'.layoutType = "force") =>
            nodeObj' = IF isAnimating
                       THEN ForceTick(nodeObj, visibleNodes', visibleEdges')
                       ELSE nodeObj]_vars

\* Force was reselected after the grid layout had moved the nodes, and the
\* simulation has run since: the last tick started from the grid, so the
\* nodes are still within a tick's reach of its first row.
C21_Witness ==
    /\ filters.layoutType = "force"
    /\ isAnimating
    /\ ticks = MaxTicks
    /\ Len(visibleNodes) >= 2
    /\ frames # {}
    /\ \A id \in IdsOf(visibleNodes) :
           Abs(nodeObj[id].y - GridMargin * PosScale) <= 2 * PosScale

=============================================================================
